---- MODULE Spec2Model ----
(***************************************************************************)
(* Trainer Booking (app.py): the persisted scheduling document             *)
(* storage.json, the read-through cache in front of it, the per-session    *)
(* render snapshot, and the handlers that re-read, validate and write it   *)
(* (confirm booking, move, cancel, block toggle, save settings).           *)
(*                                                                         *)
(* Timestamps are minutes since day 0, 00:00: slot_iso(d, hr) is the       *)
(* minute at which hour hr of day d starts, so two ISO strings are equal   *)
(* exactly when the two numbers are.  Text (names, remarks, codes, PINs)   *)
(* is a sequence of one-character strings.                                 *)
(***************************************************************************)
EXTENDS Integers, Sequences, FiniteSets, TLC

\* ----------------------------- Bounds -----------------------------
\* Longest bookings list a create may produce.
MaxBookings == 2
\* Last value of the wall clock (it starts at 1).
MaxClock == 2
\* Most handler runs a recorded serial run holds.
MaxTrail == 4
\* Most save_storage calls a run with interleaved saves starts.
MaxSaves == 3

\* ----------------------------- Constants (app.py 17-22) -----------------------------
SLOT_LENGTH_MIN == 60
DEFAULT_DAY_START == 6
DEFAULT_DAY_END == 21
DEFAULT_PIN == <<"1", "2", "3", "4">>

\* ----------------------------- Inputs -----------------------------
Sessions == {"s1", "s2"}
\* Sessions that leave a page or dialog rendered while other sessions write; every
\* other session presses a button right after the script run that rendered it.
Lagging == {"s1"}
\* Sessions in which the trainer PIN is entered.
TrainerSessions == {"s2"}
\* Dates and hours whose buttons the users press: in the slots dialog and the
\* trainer grid, and under 'Move to:'.
ClickDates == {1}
ClickHours == {6, 7}
\* Dates of the month grid whose cells are rendered.
GridDates == {1, 2}
\* Start and end hours the day may be set to when a grid cell is rendered.
StatHours == 5..8
MoveHours == {7, 8}
\* Text typed into 'Your name' and 'Remark'.
NameInputs == {<<>>, <<" ">>, <<" ", "A", "l">>}
RemarkInputs == {<<"k", "n", "e", "e", " ">>}
\* Characters secrets.choice returns in the runs explored.
DrawChars == {"A", "B"}
\* Text typed into 'Booking code'.
CodeInputs == {<<"a", "a", "a", "-", "a", "a", "a">>,
               <<"B", "B", "B", "-", "B", "B", "B", " ">>}
\* Values entered into 'Start hour', 'End hour' and 'Trainer PIN', and into 'Enter PIN'.
SettingsInputs == {<<7, 6, <<"1", "2", "3", "4", "5", "6", "7", "8", "9">> >>,
                   <<DEFAULT_DAY_START, DEFAULT_DAY_END, DEFAULT_PIN>>}
\* Sessions whose dialogs are followed click by click.
DialogSessions == {"s1"}
\* The header buttons.
HeaderButtons == {"month", "today", "trainer"}
\* The widget of the manage section whose click causes a script run.
ManageWidgets == {"submit", "cancel", "move"}
PinInputs == {<<"1", "2", "3", "4">>, <<"1", "2", "3", "4", "5", "6", "7", "8">>,
              <<"0">>}

\* ----------------------------- Text -----------------------------
Range(seq) == {seq[i] : i \in 1..Len(seq)}

IsSpace(c) == c = " "

RECURSIVE lstrip(_)
lstrip(t) == IF t # <<>> /\ IsSpace(Head(t)) THEN lstrip(Tail(t)) ELSE t

RECURSIVE rstrip(_)
rstrip(t) ==
    IF t # <<>> /\ IsSpace(t[Len(t)]) THEN rstrip(SubSeq(t, 1, Len(t) - 1)) ELSE t

\* str.strip()
strip(t) == rstrip(lstrip(t))

UpperChar(c) ==
    CASE c = "a" -> "A"
      [] c = "b" -> "B"
      [] c = "k" -> "K"
      [] c = "n" -> "N"
      [] c = "e" -> "E"
      [] c = "l" -> "L"
      [] OTHER -> c

\* str.upper()
upper(t) == [i \in 1..Len(t) |-> UpperChar(t[i])]

\* t[:n]
Prefix(t, n) == SubSeq(t, 1, IF Len(t) < n THEN Len(t) ELSE n)

\* ----------------------------- Utilities (app.py 43-59) -----------------------------
slot_iso(d, hr) == (d * 24 + hr) * 60

add_minutes_iso(iso, minutes) == iso + minutes

\* The strings uid(n) returns in the runs explored: n draws of one character.
uid(n) == {[i \in 1..n |-> c] : c \in DrawChars}

\* sorted(list(S)) for a set of timestamps.
RECURSIVE sorted(_)
sorted(S) ==
    IF S = {} THEN <<>>
    ELSE LET m == CHOOSE x \in S : \A y \in S : x <= y
         IN  <<m>> \o sorted(S \ {m})

\* ----------------------------- State -----------------------------
VARIABLES
    storage_exists,   \* STORAGE_PATH.exists()
    storage_mtime,    \* STORAGE_PATH.stat().st_mtime
    storage_json,     \* the document in storage.json
    cache,            \* st.cache_data entries of _load_storage_cached: [ts, value]
    now,              \* the wall clock
    snap,             \* per lagging session: storage loaded by its last script run
    trainer_mode,     \* per session: st.session_state.trainer_mode
    last,             \* the handler that ran last and what it reported
    job,              \* per session: a confirm between its re-read and its write
    cancelled,        \* history: the codes a cancel has removed so far
    trail,            \* history: the reports of the recorded handler runs, in order
    tmp,              \* the file storage.tmp: absent, or its content
    asked,            \* history: the documents save_storage was called with
    session_state,    \* per session followed click by click: the dialog flags
    dialog            \* per such session: the dialog on screen

vars == <<storage_exists, storage_mtime, storage_json, cache, now, snap,
          trainer_mode, last, job, cancelled, trail, tmp, asked,
          session_state, dialog>>

DefaultDoc ==
    [bookings |-> <<>>,
     blocked  |-> <<>>,
     settings |-> [dayStartHour |-> DEFAULT_DAY_START,
                   dayEndHour   |-> DEFAULT_DAY_END,
                   trainerPin   |-> DEFAULT_PIN]]

\* ----------------------------- Storage (app.py 25-41) -----------------------------
\* The body of _load_storage_cached, run on a cache miss.
ReadStorage == IF ~storage_exists THEN DefaultDoc ELSE storage_json

StatMtime == IF storage_exists THEN storage_mtime ELSE 0

\* What load_storage() returns.
load_storage ==
    LET hit == {e \in cache : e.ts = StatMtime}
    IN  IF hit # {} THEN (CHOOSE e \in hit : TRUE).value ELSE ReadStorage

\* The cache after a load_storage() call.
CacheAfterLoad ==
    IF \E e \in cache : e.ts = StatMtime THEN cache
    ELSE cache \cup {[ts |-> StatMtime, value |-> ReadStorage]}

\* save_storage(data): write the temporary file, replace storage.json, clear the cache.
save_storage(data) ==
    /\ storage_exists' = TRUE
    /\ storage_json' = data
    /\ storage_mtime' = now
    /\ cache' = {}

\* save_storage(data) followed by st.rerun(): the new run loads storage (line 190).
save_and_rerun(s, data) ==
    /\ storage_exists' = TRUE
    /\ storage_json' = data
    /\ storage_mtime' = now
    /\ cache' = {[ts |-> now, value |-> data]}
    /\ snap' = [x \in Lagging |-> IF x = s THEN data ELSE snap[x]]

\* A handler that ends without writing.
load_only ==
    /\ cache' = CacheAfterLoad
    /\ UNCHANGED <<storage_exists, storage_mtime, storage_json>>

\* ----------------------------- Snapshot helpers (app.py 195-210) -----------------------------
\* hours that runs between the two settings whichever is the larger.
hours_EitherOrder(doc) ==
    IF doc.settings.dayStartHour <= doc.settings.dayEndHour
    THEN doc.settings.dayStartHour .. doc.settings.dayEndHour
    ELSE doc.settings.dayEndHour .. doc.settings.dayStartHour

hours(doc) == doc.settings.dayStartHour .. doc.settings.dayEndHour

is_blocked(doc, start_iso) == start_iso \in Range(doc.blocked)

is_booked(doc, start_iso) == \E i \in 1..Len(doc.bookings) : doc.bookings[i].startISO = start_iso

\* max(0, n)
Max0(n) == IF n < 0 THEN 0 ELSE n

\* day_availability_stats counting a blocked slot whether or not it is booked.
day_availability_stats_CountsBoth(doc, d) ==
    LET total         == Cardinality(hours(doc))
        taken         == Cardinality({hr \in hours(doc) : is_booked(doc, slot_iso(d, hr))})
        blocked_count == Cardinality({hr \in hours(doc) : is_blocked(doc, slot_iso(d, hr))})
    IN  [free     |-> Max0(total - taken - blocked_count),
         occupied |-> taken + blocked_count,
         total    |-> total]

\* day_availability_stats(d) on the rendered storage (app.py 227-238).
day_availability_stats(doc, d) ==
    LET total         == Cardinality(hours(doc))
        taken         == Cardinality({hr \in hours(doc) : is_booked(doc, slot_iso(d, hr))})
        blocked_count == Cardinality({hr \in hours(doc) :
                                        /\ ~is_booked(doc, slot_iso(d, hr))
                                        /\ is_blocked(doc, slot_iso(d, hr))})
    IN  [free     |-> Max0(total - taken - blocked_count),
         occupied |-> taken + blocked_count,
         total    |-> total]

NoSlot == 0
NoText == <<>>

\* The storage the widgets of session s were rendered from (app.py 189-197).
rendered(s) == IF s \in Lagging THEN snap[s] ELSE load_storage

Idle == [pc |-> "idle"]

\* pending_booking_date and pending_booking_hour when None.
NoDate == 0
NoHour == -1

\* The dialog flags after the defaults of lines 166-180.
DefaultFlags ==
    [show_trainer_modal   |-> FALSE,
     slots_modal_open     |-> FALSE,
     slots_modal_date     |-> 1,
     open_confirm         |-> FALSE,
     pending_booking_date |-> NoDate,
     pending_booking_hour |-> NoHour,
     show_month_picker    |-> FALSE]

\* No dialog on screen.
NoDialog == {}

\* A path at which there is no file.
Absent == [exists |-> FALSE]

Report(op, err, slot, text) == [op |-> op, err |-> err, slot |-> slot, text |-> text]

Init ==
    /\ storage_exists = FALSE
    /\ storage_mtime = 0
    /\ storage_json = DefaultDoc
    /\ cache = {}
    /\ now = 1
    /\ snap = [s \in Lagging |-> DefaultDoc]
    /\ trainer_mode = [s \in Sessions |-> FALSE]
    /\ last = Report("none", "none", NoSlot, NoText)
    /\ job = [s \in Sessions |-> Idle]
    /\ cancelled = {}
    /\ trail = <<>>
    /\ tmp = Absent
    /\ asked = {}
    /\ session_state = [s \in DialogSessions |-> DefaultFlags]
    /\ dialog = [s \in DialogSessions |-> NoDialog]

\* The clock advances.
Tick ==
    /\ now < MaxClock
    /\ now' = now + 1
    /\ UNCHANGED <<storage_exists, storage_mtime, storage_json, cache, snap,
                   trainer_mode, last, job, cancelled, trail, tmp, asked,
                   session_state, dialog>>

\* A script run with no button pressed: 'Load storage' (app.py 189-197).
ScriptRun(s) ==
    /\ snap' = [x \in Lagging |-> IF x = s THEN load_storage ELSE snap[x]]
    /\ load_only
    /\ UNCHANGED <<now, trainer_mode, last, job, cancelled, trail, tmp, asked,
                   session_state, dialog>>

\* ----------------------------- Confirm booking (app.py 244-288) -----------------------------
\* The button of hour hr in slots_dialog is enabled (app.py 295-304).
SlotSelectable(doc, d, hr) ==
    /\ hr \in hours(doc)
    /\ ~is_booked(doc, slot_iso(d, hr))
    /\ ~is_blocked(doc, slot_iso(d, hr))

\* The booking a Confirm appends.
NewBooking(start_iso, end_iso, name, remark, code, ts) ==
    [id           |-> ts,
     name         |-> strip(name),
     remark       |-> strip(remark),
     startISO     |-> start_iso,
     endISO       |-> end_iso,
     createdAtISO |-> ts,
     code         |-> code]

\* ConfirmResult with the check of line 264 made first.
ConfirmResult_NameFirst(latest, start_iso, end_iso, name, remark, code, ts) ==
    IF strip(name) = <<>> THEN [err |-> "InvalidName", data |-> latest]
    ELSE IF start_iso \in Range(latest.blocked) THEN [err |-> "SlotBlocked", data |-> latest]
    ELSE IF \E i \in 1..Len(latest.bookings) : latest.bookings[i].startISO = start_iso
    THEN [err |-> "SlotTaken", data |-> latest]
    ELSE [err  |-> "ok",
          data |-> [latest EXCEPT !.bookings =
                       Append(@, NewBooking(start_iso, end_iso, name, remark, code, ts))]]

\* ConfirmResult without the check of line 261.
ConfirmResult_NoTakenCheck(latest, start_iso, end_iso, name, remark, code, ts) ==
    IF start_iso \in Range(latest.blocked) THEN [err |-> "SlotBlocked", data |-> latest]
    ELSE IF strip(name) = <<>> THEN [err |-> "InvalidName", data |-> latest]
    ELSE [err  |-> "ok",
          data |-> [latest EXCEPT !.bookings =
                       Append(@, NewBooking(start_iso, end_iso, name, remark, code, ts))]]

\* ConfirmResult with the checks of lines 258 and 261 in the other order.
ConfirmResult_TakenFirst(latest, start_iso, end_iso, name, remark, code, ts) ==
    IF \E i \in 1..Len(latest.bookings) : latest.bookings[i].startISO = start_iso
    THEN [err |-> "SlotTaken", data |-> latest]
    ELSE IF start_iso \in Range(latest.blocked)
    THEN [err |-> "SlotBlocked", data |-> latest]
    ELSE IF strip(name) = <<>> THEN [err |-> "InvalidName", data |-> latest]
    ELSE [err  |-> "ok",
          data |-> [latest EXCEPT !.bookings =
                       Append(@, NewBooking(start_iso, end_iso, name, remark, code, ts))]]

\* Lines 258-278: the checks on the re-read document and the appended booking.
ConfirmResult(latest, start_iso, end_iso, name, remark, code, ts) ==
    IF start_iso \in Range(latest.blocked) THEN [err |-> "SlotBlocked", data |-> latest]
    ELSE IF \E i \in 1..Len(latest.bookings) : latest.bookings[i].startISO = start_iso
    THEN [err |-> "SlotTaken", data |-> latest]
    ELSE IF strip(name) = <<>> THEN [err |-> "InvalidName", data |-> latest]
    ELSE [err  |-> "ok",
          data |-> [latest EXCEPT !.bookings =
                       Append(@, NewBooking(start_iso, end_iso, name, remark, code, ts))]]

\* 'Confirm' pressed in the confirm-booking dialog for the slot picked in slots_dialog.
ConfirmStep(s, d, hr, name, remark, u1, u2) ==
    /\ SlotSelectable(rendered(s), d, hr)
    /\ LET start_iso == slot_iso(d, hr)
           end_iso   == add_minutes_iso(start_iso, SLOT_LENGTH_MIN)
           latest    == load_storage
           code      == u1 \o <<"-">> \o u2
           r         == ConfirmResult(latest, start_iso, end_iso, name, remark, code, now)
       IN  /\ r.err = "ok" => Len(latest.bookings) < MaxBookings
           /\ IF r.err = "ok" THEN save_storage(r.data) ELSE load_only
           /\ last' = Report("create", r.err, start_iso, strip(name))
    /\ UNCHANGED <<now, snap, trainer_mode, job, cancelled, tmp, asked,
                   session_state, dialog>>

confirm_booking_dialog(s, d, hr, name, remark, u1, u2) ==
    ConfirmStep(s, d, hr, name, remark, u1, u2) /\ UNCHANGED trail

\* The same step, with its report added to the recorded run.
confirm_booking_recorded(s, d, hr, name, remark, u1, u2) ==
    /\ Len(trail) < MaxTrail
    /\ ConfirmStep(s, d, hr, name, remark, u1, u2)
    /\ trail' = Append(trail, last')

\* ----------------------------- Manage booking (app.py 526-578) -----------------------------
\* Lines 528-536: the code typed into the form finds a booking of the rendered snapshot.
Managed(doc, code) ==
    /\ code # <<>>
    /\ \E i \in 1..Len(doc.bookings) : upper(doc.bookings[i].code) = code

\* The index line 554 finds for a code, -1 when no booking carries it.
IndexOfCode(raw, code) ==
    LET found == {i \in 1..Len(raw) : upper(raw[i].code) = code}
    IN  IF found = {} THEN -1 ELSE CHOOSE i \in found : \A j \in found : i <= j

\* Moved without the assignment of line 563.
Moved_StartOnly(latest, idx, s) ==
    [latest EXCEPT !.bookings[idx].startISO = s]

\* Lines 562-563 on the booking at idx.
Moved(latest, idx, s) ==
    [latest EXCEPT !.bookings[idx].startISO = s,
                   !.bookings[idx].endISO = add_minutes_iso(s, SLOT_LENGTH_MIN)]

\* MoveResult writing a booking rebuilt from the moved one, stamped anew.
MoveResult_Rebuilt(latest, code, s) ==
    LET raw == latest.bookings
        idx == IndexOfCode(raw, code)
    IN  IF idx < 0 THEN [err |-> "BookingNotFound", data |-> latest]
        ELSE IF \E i \in 1..Len(raw) : raw[i].startISO = s
        THEN [err |-> "SlotTaken", data |-> latest]
        ELSE IF s \in Range(latest.blocked) THEN [err |-> "SlotBlocked", data |-> latest]
        ELSE [err  |-> "ok",
              data |-> [Moved(latest, idx, s) EXCEPT !.bookings[idx].createdAtISO = now]]

\* MoveResult whose check of line 557 skips the booking being moved.
MoveResult_OthersOnly(latest, code, s) ==
    LET raw == latest.bookings
        idx == IndexOfCode(raw, code)
    IN  IF idx < 0 THEN [err |-> "BookingNotFound", data |-> latest]
        ELSE IF \E i \in 1..Len(raw) : i # idx /\ raw[i].startISO = s
        THEN [err |-> "SlotTaken", data |-> latest]
        ELSE IF s \in Range(latest.blocked) THEN [err |-> "SlotBlocked", data |-> latest]
        ELSE [err |-> "ok", data |-> Moved(latest, idx, s)]

\* MoveResult with the checks of lines 557 and 559 in the other order.
MoveResult_BlockedFirst(latest, code, s) ==
    LET raw == latest.bookings
        idx == IndexOfCode(raw, code)
    IN  IF idx < 0 THEN [err |-> "BookingNotFound", data |-> latest]
        ELSE IF s \in Range(latest.blocked) THEN [err |-> "SlotBlocked", data |-> latest]
        ELSE IF \E i \in 1..Len(raw) : raw[i].startISO = s
        THEN [err |-> "SlotTaken", data |-> latest]
        ELSE [err |-> "ok", data |-> Moved(latest, idx, s)]

\* MoveResult without the check of line 559.
MoveResult_NoBlockedCheck(latest, code, s) ==
    LET raw == latest.bookings
        idx == IndexOfCode(raw, code)
    IN  IF idx < 0 THEN [err |-> "BookingNotFound", data |-> latest]
        ELSE IF \E i \in 1..Len(raw) : raw[i].startISO = s
        THEN [err |-> "SlotTaken", data |-> latest]
        ELSE [err |-> "ok", data |-> Moved(latest, idx, s)]

\* Lines 553-565: the checks on the re-read document and the booking moved in place.
MoveResult(latest, code, s) ==
    LET raw == latest.bookings
        idx == IndexOfCode(raw, code)
    IN  IF idx < 0 THEN [err |-> "BookingNotFound", data |-> latest]
        ELSE IF \E i \in 1..Len(raw) : raw[i].startISO = s
        THEN [err |-> "SlotTaken", data |-> latest]
        ELSE IF s \in Range(latest.blocked) THEN [err |-> "SlotBlocked", data |-> latest]
        ELSE [err |-> "ok", data |-> Moved(latest, idx, s)]

\* An hour button under 'Move to:' pressed (app.py 545-567).
move_booking(s, typed, d, hr) ==
    LET code == upper(strip(typed))
        t    == slot_iso(d, hr)
    IN  /\ Managed(rendered(s), code)
        /\ hr \in hours(rendered(s))
        /\ ~(is_booked(rendered(s), t) \/ is_blocked(rendered(s), t))
        /\ LET r == MoveResult(load_storage, code, t)
           IN  /\ IF r.err = "ok"
                  THEN save_and_rerun(s, r.data)
                  ELSE load_only /\ UNCHANGED snap
               /\ last' = Report("move", r.err, t, code)
        /\ UNCHANGED <<now, trainer_mode, job, cancelled, trail, tmp, asked,
                   session_state, dialog>>

\* CancelResult dropping only the first booking that carries the code.
CancelResult_FirstOnly(latest, code) ==
    LET raw == latest.bookings
        idx == IndexOfCode(raw, code)
    IN  IF idx < 0 THEN [err |-> "BookingNotFound", data |-> latest]
        ELSE [err  |-> "ok",
              data |-> [latest EXCEPT !.bookings =
                           SubSeq(raw, 1, idx - 1) \o SubSeq(raw, idx + 1, Len(raw))]]

\* Lines 570-575: the bookings kept by a cancel.
CancelResult(latest, code) ==
    LET keep == SelectSeq(latest.bookings, LAMBDA b : upper(b.code) # code)
    IN  IF Len(keep) = Len(latest.bookings)
        THEN [err |-> "BookingNotFound", data |-> latest]
        ELSE [err |-> "ok", data |-> [latest EXCEPT !.bookings = keep]]

\* 'Cancel this booking' pressed (app.py 569-578).
CancelStep(s, typed) ==
    LET code == upper(strip(typed))
    IN  /\ Managed(rendered(s), code)
        /\ LET r == CancelResult(load_storage, code)
           IN  /\ IF r.err = "ok"
                  THEN save_and_rerun(s, r.data)
                  ELSE load_only /\ UNCHANGED snap
               /\ last' = Report("cancel", r.err, NoSlot, code)
        /\ UNCHANGED <<now, trainer_mode, job, trail, tmp, asked,
                   session_state, dialog>>

cancel_booking(s, typed) == CancelStep(s, typed) /\ UNCHANGED cancelled

\* The same step, with the code it removed added to the history.
cancel_booking_recorded(s, typed) ==
    /\ CancelStep(s, typed)
    /\ cancelled' = IF last'.err = "ok" THEN cancelled \cup {last'.text} ELSE cancelled

\* ----------------------------- Manage booking, click by click (app.py 526-578) -----------------------------
\* The script run caused by a click on one widget of the manage section: Submit
\* of the form, or, when the previous run drew them, 'Cancel this booking' or
\* the button of hour hr under 'Move to:'. The text input holds typed. Only the
\* clicked widget reads true in the run.
manage_run(s, widget, typed, d, hr) ==
    LET submitted_manage == widget = "submit"
        cancel_pressed   == widget = "cancel"
        move_pressed     == widget = "move"
        code             == upper(strip(typed))
        doc              == load_storage
        t                == slot_iso(d, hr)
        managed          == submitted_manage /\ Managed(doc, code)
        move_drawn       == /\ hr \in hours(doc)
                            /\ ~(is_booked(doc, t) \/ is_blocked(doc, t))
        reloaded         == [x \in Lagging |-> IF x = s THEN doc ELSE snap[x]]
    IN  /\ widget # "submit" =>
              /\ job[s].pc = "managed"
              /\ job[s].typed = typed
              /\ move_pressed => /\ hr \in hours(rendered(s))
                                  /\ ~is_booked(rendered(s), t)
                                  /\ ~is_blocked(rendered(s), t)
        /\ widget # "move" => (d = CHOOSE x \in ClickDates : TRUE) /\ (hr = DEFAULT_DAY_START)
        /\ IF managed /\ move_pressed /\ move_drawn
           THEN LET r == MoveResult(doc, code, t)
                IN  /\ IF r.err = "ok"
                       THEN save_and_rerun(s, r.data)
                       ELSE load_only /\ snap' = reloaded
                    /\ last' = Report("move", r.err, t, code)
                    /\ job' = [job EXCEPT ![s] = Idle]
           ELSE IF managed /\ cancel_pressed
           THEN LET r == CancelResult(doc, code)
                IN  /\ IF r.err = "ok"
                       THEN save_and_rerun(s, r.data)
                       ELSE load_only /\ snap' = reloaded
                    /\ last' = Report("cancel", r.err, NoSlot, code)
                    /\ job' = [job EXCEPT ![s] = Idle]
           ELSE /\ load_only
                /\ snap' = reloaded
                /\ job' = [job EXCEPT ![s] =
                              [pc     |-> IF managed THEN "managed" ELSE "hidden",
                               widget |-> widget,
                               typed  |-> typed]]
                /\ UNCHANGED last
        /\ UNCHANGED <<now, trainer_mode, cancelled, trail, tmp, asked,
                   session_state, dialog>>

\* ----------------------------- Trainer dialog (app.py 338-416) -----------------------------
\* 'Unlock' pressed in the PIN form (app.py 341-348).
unlock(s, pin) ==
    /\ ~trainer_mode[s]
    /\ IF pin = rendered(s).settings.trainerPin
       THEN /\ trainer_mode' = [trainer_mode EXCEPT ![s] = TRUE]
            /\ snap' = [x \in Lagging |-> IF x = s THEN load_storage ELSE snap[x]]
            /\ last' = Report("unlock", "ok", NoSlot, NoText)
       ELSE /\ UNCHANGED <<trainer_mode, snap>>
            /\ last' = Report("unlock", "WrongPin", NoSlot, NoText)
    /\ IF pin = rendered(s).settings.trainerPin
       THEN load_only
       ELSE UNCHANGED <<storage_exists, storage_mtime, storage_json, cache>>
    /\ UNCHANGED <<now, job, cancelled, trail, tmp, asked,
                   session_state, dialog>>

\* SettingsResult that also drops the bookings and blocks outside the new hours.
SettingsResult_PrunesOutOfRange(latest, new_start, new_end, new_pin) ==
    LET inside(iso) == ((iso \div 60) % 24) \in new_start..new_end
    IN  [latest EXCEPT
            !.settings = [dayStartHour |-> new_start,
                          dayEndHour   |-> new_end,
                          trainerPin   |-> Prefix(new_pin, 8)],
            !.bookings = SelectSeq(@, LAMBDA b : inside(b.startISO)),
            !.blocked  = SelectSeq(@, inside)]

\* Lines 360-364: the document written by 'Save settings'.
SettingsResult(latest, new_start, new_end, new_pin) ==
    [latest EXCEPT !.settings = [dayStartHour |-> new_start,
                                 dayEndHour   |-> new_end,
                                 trainerPin   |-> Prefix(new_pin, 8)]]

\* 'Save settings' pressed (app.py 359-367).
save_settings(s, new_start, new_end, new_pin) ==
    /\ trainer_mode[s]
    /\ save_and_rerun(s, SettingsResult(load_storage, new_start, new_end, new_pin))
    /\ last' = Report("settings", "ok", NoSlot, NoText)
    /\ UNCHANGED <<now, trainer_mode, job, cancelled, trail, tmp, asked,
                   session_state, dialog>>

\* ToggleResult that never adds a slot.
ToggleResult_RemoveOnly(latest, s) ==
    [latest EXCEPT !.blocked = sorted(Range(latest.blocked) \ {s})]

\* ToggleResult that only ever adds the slot.
ToggleResult_AddOnly(latest, s) ==
    [latest EXCEPT !.blocked = sorted(Range(latest.blocked) \cup {s})]

\* Lines 385-389: the document written by a block toggle.
ToggleResult(latest, s) ==
    LET blk == Range(latest.blocked)
    IN  [latest EXCEPT !.blocked = sorted(IF s \in blk THEN blk \ {s} ELSE blk \cup {s})]

\* 'Block' / 'Unblock' of hour hr of the selected date pressed (app.py 370-392).
ToggleStep(s, d, hr) ==
    /\ trainer_mode[s]
    /\ hr \in hours(rendered(s))
    /\ save_and_rerun(s, ToggleResult(load_storage, slot_iso(d, hr)))
    /\ last' = Report("toggle", "ok", slot_iso(d, hr), NoText)
    /\ UNCHANGED <<now, trainer_mode, job, cancelled, tmp, asked,
                   session_state, dialog>>

toggle_block(s, d, hr) == ToggleStep(s, d, hr) /\ UNCHANGED trail

\* The same step, with its report added to the recorded run.
toggle_block_recorded(s, d, hr) ==
    /\ Len(trail) < MaxTrail
    /\ ToggleStep(s, d, hr)
    /\ trail' = Append(trail, last')

\* 'Close' pressed in the trainer dialog (app.py 412-416).
trainer_close(s) ==
    /\ trainer_mode[s]
    /\ trainer_mode' = [trainer_mode EXCEPT ![s] = FALSE]
    /\ snap' = [x \in Lagging |-> IF x = s THEN load_storage ELSE snap[x]]
    /\ load_only
    /\ UNCHANGED <<now, last, job, cancelled, trail, tmp, asked,
                   session_state, dialog>>

\* The Month, Today or Trainer header button pressed (app.py 431-455).
header_button(s) ==
    /\ trainer_mode' = [trainer_mode EXCEPT ![s] = FALSE]
    /\ snap' = [x \in Lagging |-> IF x = s THEN load_storage ELSE snap[x]]
    /\ load_only
    /\ UNCHANGED <<now, last, job, cancelled, trail, tmp, asked,
                   session_state, dialog>>

\* ----------------------------- Dialogs, click by click (app.py 244-521) -----------------------------
\* Lines 514-521: the dialogs a script run launches under the flags ss.
Launch(ss) ==
    LET confirm == ss.open_confirm /\ ss.pending_booking_date # NoDate
        slots   == ~confirm /\ ss.slots_modal_open
        month   == ~confirm /\ ~ss.slots_modal_open /\ ss.show_month_picker
        trainer == /\ ~confirm
                   /\ ~ss.slots_modal_open
                   /\ ~ss.show_month_picker
                   /\ ss.show_trainer_modal
    IN  (IF confirm
         THEN {[kind |-> "confirm", date |-> ss.pending_booking_date,
                hour |-> ss.pending_booking_hour]}
         ELSE {})
        \cup (IF slots THEN {[kind |-> "slots", date |-> ss.slots_modal_date]} ELSE {})
        \cup (IF month THEN {[kind |-> "month"]} ELSE {})
        \cup (IF trainer THEN {[kind |-> "trainer"]} ELSE {})

\* The dialog of kind k is on the screen of session s.
OnScreen(s, k) == \E x \in dialog[s] : x.kind = k

\* A whole script run of session s that ends with the flags ss: storage is
\* loaded (line 190) and the dialogs are launched (lines 514-521).
FullRun(s, ss) ==
    /\ session_state' = [session_state EXCEPT ![s] = ss]
    /\ dialog' = [dialog EXCEPT ![s] = Launch(ss)]
    /\ snap' = [x \in Lagging |-> IF x = s THEN load_storage ELSE snap[x]]
    /\ load_only

\* The button of day d in the month grid pressed (app.py 493-511).
day_click(s, d) ==
    /\ dialog[s] = NoDialog
    /\ FullRun(s, [session_state[s] EXCEPT !.slots_modal_date = d,
                                            !.slots_modal_open = TRUE])
    /\ UNCHANGED <<now, trainer_mode, last, job, cancelled, trail, tmp, asked>>

\* The button of hour hr in slots_dialog pressed (app.py 304-309).
slot_click(s, hr) ==
    LET md == session_state[s].slots_modal_date
    IN  /\ OnScreen(s, "slots")
        /\ SlotSelectable(rendered(s), md, hr)
        /\ FullRun(s, [session_state[s] EXCEPT !.pending_booking_date = md,
                                                !.pending_booking_hour = hr,
                                                !.open_confirm = TRUE,
                                                !.slots_modal_open = FALSE])
        /\ UNCHANGED <<now, trainer_mode, last, job, cancelled, trail, tmp, asked>>

\* 'Confirm' pressed in the confirm dialog on screen (app.py 254-288): only the
\* dialog function runs again.
confirm_submit(s, name, remark, u1, u2) ==
    /\ OnScreen(s, "confirm")
    /\ LET x         == CHOOSE y \in dialog[s] : y.kind = "confirm"
           start_iso == slot_iso(x.date, x.hour)
           end_iso   == add_minutes_iso(start_iso, SLOT_LENGTH_MIN)
           r         == ConfirmResult(load_storage, start_iso, end_iso, name, remark,
                                      u1 \o <<"-">> \o u2, now)
       IN  /\ r.err = "ok" => Len(load_storage.bookings) < MaxBookings
           /\ IF r.err = "ok"
              THEN /\ save_storage(r.data)
                   /\ session_state' =
                         [session_state EXCEPT ![s].slots_modal_open = FALSE,
                                               ![s].open_confirm = FALSE,
                                               ![s].pending_booking_date = NoDate,
                                               ![s].pending_booking_hour = NoHour]
              ELSE load_only /\ UNCHANGED session_state
           /\ last' = Report("create", r.err, start_iso, strip(name))
    /\ UNCHANGED <<now, snap, trainer_mode, job, cancelled, trail, tmp, asked, dialog>>

\* The dialog on screen dismissed (its X, Escape or a click outside): the
\* browser closes it and no script run follows.
dismiss(s) ==
    /\ dialog[s] # NoDialog
    /\ dialog' = [dialog EXCEPT ![s] = NoDialog]
    /\ UNCHANGED <<storage_exists, storage_mtime, storage_json, cache, now, snap,
                   trainer_mode, last, job, cancelled, trail, tmp, asked, session_state>>

\* The Month, Today or Trainer header button pressed (app.py 431-455).
header_click(s, b) ==
    LET ss     == session_state[s]
        closed == [ss EXCEPT !.slots_modal_open = FALSE, !.open_confirm = FALSE]
    IN  /\ dialog[s] = NoDialog
        /\ trainer_mode' = [trainer_mode EXCEPT ![s] = FALSE]
        /\ FullRun(s, CASE b = "month" ->
                              [closed EXCEPT !.show_trainer_modal = FALSE,
                                             !.show_month_picker = TRUE]
                         [] b = "today" ->
                              [closed EXCEPT !.show_trainer_modal = FALSE]
                         [] b = "trainer" ->
                              [closed EXCEPT !.show_month_picker = FALSE,
                                             !.show_trainer_modal = TRUE])
        /\ UNCHANGED <<now, last, job, cancelled, trail, tmp, asked>>

\* A month button of month_picker_dialog pressed (app.py 330-336).
month_pick(s) ==
    /\ OnScreen(s, "month")
    /\ FullRun(s, [session_state[s] EXCEPT !.show_month_picker = FALSE])
    /\ UNCHANGED <<now, trainer_mode, last, job, cancelled, trail, tmp, asked>>

\* 'Close' pressed in the trainer dialog on screen (app.py 412-416).
dialog_close(s) ==
    /\ OnScreen(s, "trainer")
    /\ trainer_mode[s]
    /\ trainer_mode' = [trainer_mode EXCEPT ![s] = FALSE]
    /\ FullRun(s, [session_state[s] EXCEPT !.show_trainer_modal = FALSE])
    /\ UNCHANGED <<now, last, job, cancelled, trail, tmp, asked>>

\* ----------------------------- load_storage, step by step (app.py 25-34) -----------------------------
\* Line 33 of a script run's load_storage(): the file's mtime is read.
load_stat(s) ==
    /\ job[s].pc = "idle"
    /\ job' = [job EXCEPT ![s] = [pc |-> "stat", ts |-> StatMtime]]
    /\ UNCHANGED <<storage_exists, storage_mtime, storage_json, cache, now, snap,
                   trainer_mode, last, cancelled, trail, tmp, asked,
                   session_state, dialog>>

\* Line 34: the cached function is called with that mtime; on a hit the cached
\* value is returned, on a miss lines 27-30 read the file.
load_read(s) ==
    /\ job[s].pc = "stat"
    /\ LET hit == {e \in cache : e.ts = job[s].ts}
       IN  IF hit # {}
           THEN /\ snap' = [x \in Lagging |->
                               IF x = s THEN (CHOOSE e \in hit : TRUE).value ELSE snap[x]]
                /\ job' = [job EXCEPT ![s] = Idle]
           ELSE /\ job' = [job EXCEPT ![s] =
                              [pc |-> "read", ts |-> job[s].ts, value |-> ReadStorage]]
                /\ UNCHANGED snap
    /\ UNCHANGED <<storage_exists, storage_mtime, storage_json, cache, now,
                   trainer_mode, last, cancelled, trail, tmp, asked,
                   session_state, dialog>>

\* st.cache_data stores the value the function returned under the mtime it was
\* called with, and load_storage() returns it (line 190).
load_store(s) ==
    /\ job[s].pc = "read"
    /\ cache' = {e \in cache : e.ts # job[s].ts}
                 \cup {[ts |-> job[s].ts, value |-> job[s].value]}
    /\ snap' = [x \in Lagging |-> IF x = s THEN job[s].value ELSE snap[x]]
    /\ job' = [job EXCEPT ![s] = Idle]
    /\ UNCHANGED <<storage_exists, storage_mtime, storage_json, now,
                   trainer_mode, last, cancelled, trail, tmp, asked,
                   session_state, dialog>>

\* ----------------------------- save_storage, step by step (app.py 36-41) -----------------------------
\* The text json.dump writes for a document, as a sequence of tokens in the order
\* of its keys: the bookings, the blocked list, the settings.
Token(k, v) == [k |-> k, v |-> v]

Serialize(doc) ==
    <<Token("open", 0)>>
    \o [i \in 1..Len(doc.bookings) |-> Token("booking", doc.bookings[i])]
    \o <<Token("sep", 0)>>
    \o [i \in 1..Len(doc.blocked) |-> Token("blocked", doc.blocked[i])]
    \o <<Token("sep", 0), Token("settings", doc.settings), Token("close", 0)>>

\* json.load accepts the text: it is the text of one whole document.
IsComplete(c) ==
    /\ Len(c) >= 5
    /\ c[1].k = "open"
    /\ c[Len(c)].k = "close"
    /\ c[Len(c) - 1].k = "settings"
    /\ c[Len(c) - 2].k = "sep"
    /\ \E m \in 2..(Len(c) - 3) :
          /\ c[m].k = "sep"
          /\ \A i \in 2..(m - 1) : c[i].k = "booking"
          /\ \A i \in (m + 1)..(Len(c) - 3) : c[i].k = "blocked"

\* The document json.load returns for such a text.
Parse(c) ==
    LET m == CHOOSE i \in 2..(Len(c) - 3) : c[i].k = "sep"
    IN  [bookings |-> [i \in 1..(m - 2) |-> c[i + 1].v],
         blocked  |-> [i \in 1..(Len(c) - 3 - m) |-> c[m + i].v],
         settings |-> c[Len(c) - 1].v]

\* What a file holds: the document of its text, or the text itself when the
\* text is not one whole document.
View(c) == IF IsComplete(c) THEN Parse(c) ELSE [torn |-> c]

IsDocument(v) == "torn" \notin DOMAIN v

ContentOf(v) == IF IsDocument(v) THEN Serialize(v) ELSE v.torn

\* write() of a chunk at offset pos of a file holding c: bytes before pos that
\* the file lacks read as NUL, bytes after the chunk stay.
WriteAt(c, pos, chunk) ==
    LET padded == IF Len(c) < pos
                  THEN c \o [i \in 1..(pos - Len(c)) |-> Token("nul", 0)]
                  ELSE c
    IN  SubSeq(padded, 1, pos) \o chunk \o SubSeq(padded, pos + Len(chunk) + 1, Len(padded))

\* The two chunks in which the buffered writer hands a text to the file.
FirstChunk(c) == SubSeq(c, 1, Len(c) \div 2)

SecondChunk(c) == SubSeq(c, Len(c) \div 2 + 1, Len(c))

\* Lines 37-38: open(tmp, 'w') creates storage.tmp or empties the one there.
save_open(s, data, op, slot, text) ==
    /\ Cardinality(asked) < MaxSaves
    /\ tmp' = [exists |-> TRUE, content |-> <<>>, mtime |-> now]
    /\ asked' = asked \cup {data}
    /\ job' = [job EXCEPT ![s] = [pc |-> "opened", data |-> data, fd |-> "tmp",
                                   op |-> op, slot |-> slot, text |-> text]]

\* 'Confirm' pressed: lines 254-278, then save_storage up to its open().
confirm_open(s, d, hr, name, remark, u1, u2) ==
    /\ job[s].pc = "idle"
    /\ IsDocument(storage_json)
    /\ SlotSelectable(rendered(s), d, hr)
    /\ LET start_iso == slot_iso(d, hr)
           end_iso   == add_minutes_iso(start_iso, SLOT_LENGTH_MIN)
           latest    == load_storage
           code      == u1 \o <<"-">> \o u2
           r         == ConfirmResult(latest, start_iso, end_iso, name, remark, code, now)
       IN  /\ r.err = "ok" => Len(latest.bookings) < MaxBookings
           /\ IF r.err = "ok"
              THEN /\ save_open(s, r.data, "create", start_iso, strip(name))
                   /\ UNCHANGED last
              ELSE /\ last' = Report("create", r.err, start_iso, strip(name))
                   /\ UNCHANGED <<tmp, asked, job>>
    /\ load_only
    /\ UNCHANGED <<now, snap, trainer_mode, cancelled, trail, session_state, dialog>>

\* 'Cancel this booking' pressed: lines 569-575, then save_storage up to its open().
cancel_open(s, typed) ==
    LET code == upper(strip(typed))
    IN  /\ job[s].pc = "idle"
        /\ IsDocument(storage_json)
        /\ Managed(rendered(s), code)
        /\ LET r == CancelResult(load_storage, code)
           IN  IF r.err = "ok"
               THEN /\ save_open(s, r.data, "cancel", NoSlot, code)
                    /\ UNCHANGED last
               ELSE /\ last' = Report("cancel", r.err, NoSlot, code)
                    /\ UNCHANGED <<tmp, asked, job>>
        /\ load_only
        /\ UNCHANGED <<now, snap, trainer_mode, cancelled, trail, session_state, dialog>>

\* Line 39: json.dump hands the next chunk of the text to the file the handle
\* was opened on, which is storage.tmp, or storage.json once another session has
\* renamed that file, or no path any more.
save_dump(s) ==
    /\ job[s].pc \in {"opened", "half"}
    /\ LET text  == Serialize(job[s].data)
           pos   == IF job[s].pc = "opened" THEN 0 ELSE Len(FirstChunk(text))
           chunk == IF job[s].pc = "opened" THEN FirstChunk(text) ELSE SecondChunk(text)
       IN  CASE job[s].fd = "tmp" ->
                  /\ tmp' = [exists  |-> TRUE,
                             content |-> WriteAt(tmp.content, pos, chunk),
                             mtime   |-> now]
                  /\ UNCHANGED <<storage_json, storage_mtime>>
             [] job[s].fd = "json" ->
                  /\ storage_json' = View(WriteAt(ContentOf(storage_json), pos, chunk))
                  /\ storage_mtime' = now
                  /\ UNCHANGED tmp
             [] OTHER -> UNCHANGED <<tmp, storage_json, storage_mtime>>
    /\ job' = [job EXCEPT ![s].pc = IF @ = "opened" THEN "half" ELSE "written"]
    /\ UNCHANGED <<storage_exists, cache, now, snap, trainer_mode, last, cancelled,
                   trail, asked,
                   session_state, dialog>>

\* Line 40: os.replace(tmp, STORAGE_PATH).  Handles other sessions hold on the
\* renamed file now write to storage.json; with no storage.tmp the call raises
\* FileNotFoundError and the handler ends.
save_replace(s) ==
    /\ job[s].pc = "written"
    /\ IF tmp.exists
       THEN /\ storage_exists' = TRUE
            /\ storage_json' = View(tmp.content)
            /\ storage_mtime' = tmp.mtime
            /\ tmp' = Absent
            /\ job' = [x \in Sessions |->
                          IF x = s THEN [job[s] EXCEPT !.pc = "replaced"]
                          ELSE IF job[x].pc \in {"opened", "half", "written"}
                          THEN [job[x] EXCEPT !.fd = IF @ = "tmp" THEN "json" ELSE "gone"]
                          ELSE job[x]]
            /\ UNCHANGED last
       ELSE /\ job' = [job EXCEPT ![s] = Idle]
            /\ last' = Report(job[s].op, "FileNotFoundError", job[s].slot, job[s].text)
            /\ UNCHANGED <<storage_exists, storage_json, storage_mtime, tmp>>
    /\ UNCHANGED <<cache, now, snap, trainer_mode, cancelled, trail, asked,
                   session_state, dialog>>

\* Line 41 and the end of the handler: the cache is cleared; a cancel then
\* reruns the script, which loads storage (line 190) unless json.load raises.
save_clear(s) ==
    /\ job[s].pc = "replaced"
    /\ IF job[s].op = "cancel" /\ IsDocument(storage_json)
       THEN /\ cache' = {[ts |-> StatMtime, value |-> ReadStorage]}
            /\ snap' = [x \in Lagging |-> IF x = s THEN ReadStorage ELSE snap[x]]
       ELSE /\ cache' = {}
            /\ UNCHANGED snap
    /\ last' = Report(job[s].op, "ok", job[s].slot, job[s].text)
    /\ job' = [job EXCEPT ![s] = Idle]
    /\ UNCHANGED <<storage_exists, storage_mtime, storage_json, now, trainer_mode,
                   cancelled, trail, tmp, asked,
                   session_state, dialog>>

\* The server process dies: handlers in flight, the cache and the session state
\* are gone; the files stay as they are.
crash ==
    /\ \E s \in Sessions : job[s].pc # "idle"
    /\ job' = [s \in Sessions |-> Idle]
    /\ cache' = {}
    /\ trainer_mode' = [s \in Sessions |-> FALSE]
    /\ UNCHANGED <<storage_exists, storage_mtime, storage_json, now, snap, last,
                   cancelled, trail, tmp, asked,
                   session_state, dialog>>

\* A script run with no button pressed, when json.load accepts the file.
ScriptRunSave(s) ==
    /\ job[s].pc = "idle"
    /\ IsDocument(storage_json)
    /\ ScriptRun(s)

\* ----------------------------- Confirm booking, step by step -----------------------------
\* Names that pass the check of line 264.
ValidNames == {n \in NameInputs : strip(n) # <<>>}

\* Lines 254-257: 'Confirm' pressed; the handler has re-read storage.
confirm_load(s, d, hr, name, remark) ==
    /\ job[s].pc # "loaded"
    /\ SlotSelectable(rendered(s), d, hr)
    /\ job' = [job EXCEPT ![s] =
                  [pc        |-> "loaded",
                   start_iso |-> slot_iso(d, hr),
                   end_iso   |-> add_minutes_iso(slot_iso(d, hr), SLOT_LENGTH_MIN),
                   name      |-> name,
                   remark    |-> remark,
                   latest    |-> load_storage]]
    /\ load_only
    /\ UNCHANGED <<now, snap, trainer_mode, last, cancelled, trail, tmp, asked,
                   session_state, dialog>>

\* Lines 258-288: the checks, the append and save_storage, on the document re-read earlier.
confirm_write(s, u1, u2) ==
    /\ job[s].pc = "loaded"
    /\ LET j == job[s]
           r == ConfirmResult(j.latest, j.start_iso, j.end_iso, j.name, j.remark,
                              u1 \o <<"-">> \o u2, now)
       IN  /\ r.err = "ok" => Len(j.latest.bookings) < MaxBookings
           /\ IF r.err = "ok"
              THEN save_storage(r.data)
              ELSE UNCHANGED <<storage_exists, storage_mtime, storage_json, cache>>
           /\ job' = [job EXCEPT ![s] =
                         [pc |-> "done", start_iso |-> j.start_iso, err |-> r.err]]
           /\ last' = Report("create", r.err, j.start_iso, strip(j.name))
    /\ UNCHANGED <<now, snap, trainer_mode, cancelled, trail, tmp, asked,
                   session_state, dialog>>

\* Line 385: 'Block' / 'Unblock' pressed; the handler has re-read storage.
toggle_load(s, d, hr) ==
    /\ trainer_mode[s]
    /\ job[s].pc \notin {"loaded", "toggling"}
    /\ hr \in hours(rendered(s))
    /\ job' = [job EXCEPT ![s] =
                  [pc        |-> "toggling",
                   start_iso |-> slot_iso(d, hr),
                   latest    |-> load_storage]]
    /\ load_only
    /\ UNCHANGED <<now, snap, trainer_mode, last, cancelled, trail, tmp, asked,
                   session_state, dialog>>

\* Lines 386-392: the flip and save_storage, on the document re-read earlier.
toggle_write(s) ==
    /\ job[s].pc = "toggling"
    /\ LET j == job[s]
           r == ToggleResult(j.latest, j.start_iso)
       IN  /\ save_storage(r)
           /\ job' = [job EXCEPT ![s] =
                         [pc          |-> "toggled",
                          start_iso   |-> j.start_iso,
                          now_blocked |-> j.start_iso \in Range(r.blocked)]]
           /\ last' = Report("toggle", "ok", j.start_iso, NoText)
    /\ UNCHANGED <<now, snap, trainer_mode, cancelled, trail, tmp, asked,
                   session_state, dialog>>

Next ==
    \/ \E s \in Lagging : ScriptRun(s)
    \/ \E s \in Sessions, d \in ClickDates, hr \in ClickHours, name \in NameInputs,
          remark \in RemarkInputs, u \in uid(3) :
          confirm_booking_dialog(s, d, hr, name, remark, u, u)
    \/ \E s \in Sessions, typed \in CodeInputs, d \in ClickDates, hr \in ClickHours :
          move_booking(s, typed, d, hr)
    \/ \E s \in Sessions, typed \in CodeInputs : cancel_booking(s, typed)
    \/ \E s \in TrainerSessions, pin \in PinInputs : unlock(s, pin)
    \/ \E s \in Sessions, v \in SettingsInputs : save_settings(s, v[1], v[2], v[3])
    \/ \E s \in Sessions, d \in ClickDates, hr \in ClickHours : toggle_block(s, d, hr)
    \/ \E s \in Sessions : trainer_close(s)
    \/ \E s \in Sessions : header_button(s)

Spec == Init /\ [][Next]_vars

\* Confirm handlers of several sessions interleaved between re-read and write.
NextConc ==
    \/ Tick
    \/ \E s \in Lagging : ScriptRun(s)
    \/ \E s \in Sessions, d \in ClickDates, hr \in ClickHours, name \in ValidNames,
          remark \in RemarkInputs : confirm_load(s, d, hr, name, remark)
    \/ \E s \in Sessions, u \in uid(3) : confirm_write(s, u, u)

SpecConc == Init /\ [][NextConc]_vars

\* The booking handlers, with the history of cancelled codes.
NextHistory ==
    \/ Tick
    \/ \E s \in Lagging : ScriptRun(s)
    \/ \E s \in Sessions, d \in ClickDates, hr \in ClickHours, name \in NameInputs,
          remark \in RemarkInputs, u \in uid(3) :
          confirm_booking_dialog(s, d, hr, name, remark, u, u)
    \/ \E s \in Sessions, typed \in CodeInputs, d \in ClickDates, hr \in ClickHours :
          move_booking(s, typed, d, hr)
    \/ \E s \in Sessions, typed \in CodeInputs : cancel_booking_recorded(s, typed)

SpecHistory == Init /\ [][NextHistory]_vars

\* Moves onto a third hour, beside bookings and blocks made by the other handlers.
NextMove ==
    \/ Tick
    \/ \E s \in Lagging : ScriptRun(s)
    \/ \E s \in Sessions, d \in ClickDates, hr \in ClickHours, name \in NameInputs,
          remark \in RemarkInputs, u \in uid(3) :
          confirm_booking_dialog(s, d, hr, name, remark, u, u)
    \/ \E s \in Sessions, typed \in CodeInputs, d \in ClickDates, hr \in MoveHours :
          move_booking(s, typed, d, hr)
    \/ \E s \in TrainerSessions, pin \in PinInputs : unlock(s, pin)
    \/ \E s \in Sessions, d \in ClickDates, hr \in ClickHours : toggle_block(s, d, hr)

SpecMove == Init /\ [][NextMove]_vars

\* Confirms and moves refused for every reason: beside blocks, other bookings and
\* cancels made since the page was rendered.
NextErrors ==
    \/ \E s \in Lagging : ScriptRun(s)
    \/ \E s \in Sessions, d \in ClickDates, hr \in ClickHours, name \in NameInputs,
          remark \in RemarkInputs, u \in uid(3) :
          confirm_booking_dialog(s, d, hr, name, remark, u, u)
    \/ \E s \in Sessions, typed \in CodeInputs, d \in ClickDates, hr \in MoveHours :
          move_booking(s, typed, d, hr)
    \/ \E s \in Sessions, typed \in CodeInputs : cancel_booking(s, typed)
    \/ \E s \in TrainerSessions, pin \in PinInputs : unlock(s, pin)
    \/ \E s \in Sessions, d \in ClickDates, hr \in ClickHours : toggle_block(s, d, hr)

SpecErrors == Init /\ [][NextErrors]_vars

\* Block toggles and Confirms, one whole handler at a time, with the run recorded.
NextSerial ==
    \/ \E s \in Lagging : ScriptRun(s)
    \/ \E s \in TrainerSessions, pin \in PinInputs : unlock(s, pin)
    \/ \E s \in Sessions, d \in ClickDates, hr \in ClickHours :
          toggle_block_recorded(s, d, hr)
    \/ \E s \in Sessions, d \in ClickDates, hr \in ClickHours, name \in NameInputs,
          remark \in RemarkInputs, u \in uid(3) :
          confirm_booking_recorded(s, d, hr, name, remark, u, u)

SpecSerial == Init /\ [][NextSerial]_vars

\* Script runs whose load_storage() is interleaved with the handlers that write.
NextCache ==
    \/ Tick
    \/ \E s \in Lagging : load_stat(s)
    \/ \E s \in Lagging : load_read(s)
    \/ \E s \in Lagging : load_store(s)
    \/ \E s \in Sessions, d \in ClickDates, hr \in ClickHours, name \in ValidNames,
          remark \in RemarkInputs, u \in uid(3) :
          job[s].pc = "idle" /\ confirm_booking_dialog(s, d, hr, name, remark, u, u)
    \/ \E s \in Sessions, typed \in CodeInputs :
          job[s].pc = "idle" /\ cancel_booking(s, typed)

SpecCache == Init /\ [][NextCache]_vars

\* Handlers whose save_storage() calls are interleaved, and crashes of the server.
NextSave ==
    \/ \E s \in Lagging : ScriptRunSave(s)
    \/ \E s \in Sessions, d \in ClickDates, hr \in ClickHours, name \in ValidNames,
          remark \in RemarkInputs, u \in uid(3) :
          confirm_open(s, d, hr, name, remark, u, u)
    \/ \E s \in Sessions, typed \in CodeInputs : cancel_open(s, typed)
    \/ \E s \in Sessions : save_dump(s)
    \/ \E s \in Sessions : save_replace(s)
    \/ \E s \in Sessions : save_clear(s)
    \/ crash

SpecSave == Init /\ [][NextSave]_vars

\* The trainer dialog and the header buttons in every session, the lagging one
\* included.
NextTrainer ==
    \/ \E s \in Lagging : ScriptRun(s)
    \/ \E s \in Sessions, pin \in PinInputs : unlock(s, pin)
    \/ \E s \in Sessions, v \in SettingsInputs : save_settings(s, v[1], v[2], v[3])
    \/ \E s \in Sessions, d \in ClickDates, hr \in ClickHours : toggle_block(s, d, hr)
    \/ \E s \in Sessions : trainer_close(s)
    \/ \E s \in Sessions : header_button(s)

SpecTrainer == Init /\ [][NextTrainer]_vars

\* Confirm and block-toggle handlers of two sessions interleaved between re-read
\* and write.
NextLost ==
    \/ \E s \in Lagging : ScriptRun(s)
    \/ \E s \in TrainerSessions, pin \in PinInputs : unlock(s, pin)
    \/ \E s \in Sessions, d \in ClickDates, hr \in ClickHours, name \in ValidNames,
          remark \in RemarkInputs :
          job[s].pc # "toggling" /\ confirm_load(s, d, hr, name, remark)
    \/ \E s \in Sessions, u \in uid(3) : confirm_write(s, u, u)
    \/ \E s \in TrainerSessions, d \in ClickDates, hr \in ClickHours : toggle_load(s, d, hr)
    \/ \E s \in TrainerSessions : toggle_write(s)

SpecLost == Init /\ [][NextLost]_vars

\* Bookings made through the dialogs, and the manage section driven by clicks.
\* Streamlit runs the script once for every click.
NextManage ==
    \/ \E s \in Lagging : ScriptRun(s)
    \/ \E s \in Sessions, d \in ClickDates, hr \in ClickHours, name \in ValidNames,
          remark \in RemarkInputs, u \in uid(3) :
          confirm_booking_dialog(s, d, hr, name, remark, u, u)
    \/ \E s \in Sessions, widget \in ManageWidgets, typed \in CodeInputs,
          d \in ClickDates, hr \in ClickHours : manage_run(s, widget, typed, d, hr)

SpecManage == Init /\ [][NextManage]_vars /\ WF_vars(NextManage)

\* One session's clicks on the header, the month grid and the dialogs.
NextDialog ==
    \/ \E s \in DialogSessions, d \in GridDates : day_click(s, d)
    \/ \E s \in DialogSessions, hr \in ClickHours : slot_click(s, hr)
    \/ \E s \in DialogSessions, name \in NameInputs, remark \in RemarkInputs,
          u \in uid(3) : confirm_submit(s, name, remark, u, u)
    \/ \E s \in DialogSessions : dismiss(s)
    \/ \E s \in DialogSessions, b \in HeaderButtons : header_click(s, b)
    \/ \E s \in DialogSessions : month_pick(s)
    \/ \E s \in DialogSessions, pin \in PinInputs :
          OnScreen(s, "trainer") /\ unlock(s, pin)
    \/ \E s \in DialogSessions : dialog_close(s)

SpecDialog == Init /\ [][NextDialog]_vars

\* ----------------------------- Properties -----------------------------
\* The persisted document as a reader finds it.
Persisted == ReadStorage

StartISOs(doc) == {doc.bookings[i].startISO : i \in 1..Len(doc.bookings)}

DistinctStarts(doc) ==
    \A i, j \in 1..Len(doc.bookings) :
        i # j => doc.bookings[i].startISO # doc.bookings[j].startISO

\* The index line 554 finds for a code, 0 when there is none.
FirstWithCode(doc, code) ==
    LET found == {i \in 1..Len(doc.bookings) : upper(doc.bookings[i].code) = code}
    IN  IF found = {} THEN 0 ELSE CHOOSE i \in found : \A j \in found : i <= j

NothingWritten == UNCHANGED <<storage_exists, storage_mtime, storage_json>>

\* C1: when several sessions run the Confirm branch on the same slot with valid
\* names, under every interleaving of their re-reads and writes at most one of
\* them reports success, and the persisted bookings never hold two bookings with
\* the same startISO.
C1_NoDoubleBookingConcurrent ==
    /\ DistinctStarts(Persisted)
    /\ \A s, u \in Sessions :
          (/\ s # u
           /\ job[s].pc = "done"
           /\ job[u].pc = "done"
           /\ job[s].start_iso = job[u].start_iso)
          => ~(job[s].err = "ok" /\ job[u].err = "ok")

\* C2: when every handler's re-read, checks and write are one step, no two
\* persisted bookings have the same startISO, whatever snapshot the session
\* that pressed the button was rendered from.
C2_DistinctStartISO == DistinctStarts(Persisted)

\* Two bookings are persisted and a session rendered from an older snapshot has
\* just been refused a slot that was taken meanwhile.
C2_Witness ==
    /\ Len(Persisted.bookings) = 2
    /\ last.op \in {"create", "move"}
    /\ last.err = "SlotTaken"
    /\ last.slot \in StartISOs(Persisted)
    /\ \E s \in Lagging : last.slot \notin StartISOs(snap[s])

\* C3: a Confirm on a slot that is blocked in the re-read document reports
\* SlotBlocked and writes nothing, whether or not the slot is booked and whether
\* or not the name is empty.
C3_BlockedSlotRefused ==
    [][\A s \in Sessions, d \in ClickDates, hr \in ClickHours, name \in NameInputs,
          remark \in RemarkInputs, u \in uid(3) :
          (/\ confirm_booking_dialog(s, d, hr, name, remark, u, u)
           /\ slot_iso(d, hr) \in Range(load_storage.blocked))
          => (last'.err = "SlotBlocked" /\ NothingWritten)]_vars

\* A Confirm with an empty name on a slot both blocked and booked was refused
\* with SlotBlocked.
C3_Witness ==
    /\ last = Report("create", "SlotBlocked", last.slot, <<>>)
    /\ is_blocked(Persisted, last.slot)
    /\ is_booked(Persisted, last.slot)

\* C4: a successful move leaves the moved booking's id, code, name, remark and
\* createdAtISO as they were, sets its startISO to the target, and leaves every
\* other booking, the blocked list and the settings unchanged.
C4_MovePreservesIdentity ==
    [][\A s \in Sessions, typed \in CodeInputs, d \in ClickDates, hr \in MoveHours :
          (move_booking(s, typed, d, hr) /\ last'.err = "ok")
          => LET old == load_storage
                 new == storage_json'
                 idx == FirstWithCode(old, upper(strip(typed)))
             IN  /\ idx > 0
                 /\ Len(new.bookings) = Len(old.bookings)
                 /\ \A i \in 1..Len(old.bookings) :
                       i # idx => new.bookings[i] = old.bookings[i]
                 /\ new.bookings[idx].id = old.bookings[idx].id
                 /\ new.bookings[idx].code = old.bookings[idx].code
                 /\ new.bookings[idx].name = old.bookings[idx].name
                 /\ new.bookings[idx].remark = old.bookings[idx].remark
                 /\ new.bookings[idx].createdAtISO = old.bookings[idx].createdAtISO
                 /\ new.bookings[idx].startISO = slot_iso(d, hr)
                 /\ new.blocked = old.blocked
                 /\ new.settings = old.settings]_vars

\* A move has succeeded while another booking and a blocked slot were persisted.
C4_Witness ==
    /\ last.op = "move"
    /\ last.err = "ok"
    /\ Len(Persisted.bookings) = 2
    /\ Persisted.blocked # <<>>
    /\ Persisted.bookings[FirstWithCode(Persisted, last.text)].startISO = last.slot

\* C5 (as claimed): a move is refused with SlotTaken only when a booking other
\* than the moved one occupies the target; a move onto the booking's own
\* startISO, not blocked, succeeds and changes no startISO or endISO.
C5_OwnSlotMoveSucceeds ==
    [][\A s \in Sessions, typed \in CodeInputs, d \in ClickDates, hr \in MoveHours :
          move_booking(s, typed, d, hr)
          => LET old == load_storage
                 t   == slot_iso(d, hr)
                 idx == FirstWithCode(old, upper(strip(typed)))
             IN  /\ last'.err = "SlotTaken"
                    => \E i \in 1..Len(old.bookings) :
                          i # idx /\ old.bookings[i].startISO = t
                 /\ (/\ idx > 0
                     /\ old.bookings[idx].startISO = t
                     /\ t \notin Range(old.blocked))
                    => (last'.err = "ok" /\ storage_json'.bookings = old.bookings)]_vars

\* C5 (amended): a move of a booking that is found is refused with SlotTaken
\* exactly when some booking of the re-read document, the moved one included,
\* has the target as its startISO; a move onto the booking's own startISO is
\* refused with SlotTaken and writes nothing.
C5_AnyOccupantRefusesMove ==
    [][\A s \in Sessions, typed \in CodeInputs, d \in ClickDates, hr \in MoveHours :
          move_booking(s, typed, d, hr)
          => LET old == load_storage
                 t   == slot_iso(d, hr)
                 idx == FirstWithCode(old, upper(strip(typed)))
             IN  /\ last'.err = "SlotTaken" <=> (idx > 0 /\ t \in StartISOs(old))
                 /\ (idx > 0 /\ old.bookings[idx].startISO = t)
                    => (last'.err = "SlotTaken" /\ NothingWritten)]_vars

\* A move onto the booking's own startISO, occupied by no other booking, was
\* refused with SlotTaken.
C5_Witness ==
    /\ last.op = "move"
    /\ last.err = "SlotTaken"
    /\ FirstWithCode(Persisted, last.text) > 0
    /\ \A i \in 1..Len(Persisted.bookings) :
          Persisted.bookings[i].startISO = last.slot
          <=> i = FirstWithCode(Persisted, last.text)

\* C6: a move of booking A onto the startISO of a different booking B is refused
\* with SlotTaken and writes nothing, so A keeps its startISO and endISO.
C6_MoveOntoOtherRefused ==
    [][\A s \in Sessions, typed \in CodeInputs, d \in ClickDates, hr \in MoveHours :
          move_booking(s, typed, d, hr)
          => LET old == load_storage
                 t   == slot_iso(d, hr)
                 idx == FirstWithCode(old, upper(strip(typed)))
             IN  (/\ idx > 0
                  /\ \E i \in 1..Len(old.bookings) :
                        i # idx /\ old.bookings[i].startISO = t)
                 => (last'.err = "SlotTaken" /\ NothingWritten)]_vars

\* A move of one booking onto the slot of another booking, that slot being
\* blocked as well, was refused with SlotTaken.
C6_Witness ==
    /\ last.op = "move"
    /\ last.err = "SlotTaken"
    /\ FirstWithCode(Persisted, last.text) > 0
    /\ Persisted.bookings[FirstWithCode(Persisted, last.text)].startISO # last.slot
    /\ last.slot \in StartISOs(Persisted)
    /\ is_blocked(Persisted, last.slot)

HasCode(doc, code) == \E i \in 1..Len(doc.bookings) : upper(doc.bookings[i].code) = code

\* C7 (as claimed): once a cancel of a code has succeeded, every later cancel of
\* that code reports BookingNotFound and writes nothing.
C7_CancelledCodeNeverCancelsAgain ==
    [][\A s \in Sessions, typed \in CodeInputs :
          (cancel_booking_recorded(s, typed) /\ upper(strip(typed)) \in cancelled)
          => (last'.err = "BookingNotFound" /\ NothingWritten)]_vars

\* C7 (amended): a cancel succeeds exactly when a booking of the re-read
\* document carries the code (compared in upper case), and then no persisted
\* booking carries it any more; otherwise, as for a code cancelled earlier and
\* not drawn again by a later Confirm, it reports BookingNotFound and writes
\* nothing.
C7_CancelRemovesEveryBookingOfCode ==
    [][\A s \in Sessions, typed \in CodeInputs :
          cancel_booking_recorded(s, typed)
          => LET code == upper(strip(typed))
             IN  IF HasCode(load_storage, code)
                 THEN last'.err = "ok" /\ ~HasCode(storage_json', code)
                 ELSE last'.err = "BookingNotFound" /\ NothingWritten]_vars

\* A cancel of a code cancelled earlier was refused with BookingNotFound.
C7_Witness ==
    /\ last.op = "cancel"
    /\ last.err = "BookingNotFound"
    /\ last.text \in cancelled
    /\ Persisted.bookings # <<>>

\* C8: no two persisted bookings have the same code in upper case.
C8_CodesUnique ==
    \A i, j \in 1..Len(Persisted.bookings) :
        i # j => upper(Persisted.bookings[i].code) # upper(Persisted.bookings[j].code)

\* Slots that are blocked and are the startISO of a booking.
Overlap(doc) == Range(doc.blocked) \cap StartISOs(doc)

\* C9 (as claimed): no slot is both blocked and the startISO of a booking.
C9_BlockedAndBookedDisjoint == Overlap(Persisted) = {}

\* C9 (amended): Confirm, move, cancel and Save settings never make a slot both
\* blocked and booked; a slot becomes both only in a step that adds it to the
\* blocked list and leaves the bookings as they are, which is the block toggle.
C9_OnlyBlockingOverlaps ==
    [][\A x \in Overlap(Persisted') \ Overlap(Persisted) :
          /\ x \notin Range(Persisted.blocked)
          /\ Persisted'.bookings = Persisted.bookings
          /\ \E s \in Sessions, d \in ClickDates, hr \in ClickHours :
                x = slot_iso(d, hr) /\ toggle_block(s, d, hr)]_vars

\* A move onto a blocked slot was refused with SlotBlocked while another slot
\* is both blocked and booked.
C9_Witness ==
    /\ last.op = "move"
    /\ last.err = "SlotBlocked"
    /\ is_blocked(Persisted, last.slot)
    /\ ~is_booked(Persisted, last.slot)
    /\ Overlap(Persisted) # {}

\* C10: a block toggle is never refused; it flips the membership of its slot in
\* the persisted blocked list and leaves the bookings, the settings and every
\* other slot's membership as they are; toggling the same slot twice in a row
\* gives back the blocked list.
C10_ToggleFlipsOneSlot ==
    /\ [][\A s \in Sessions, d \in ClickDates, hr \in ClickHours :
             toggle_block(s, d, hr)
             => LET old == load_storage
                    new == storage_json'
                    x   == slot_iso(d, hr)
                IN  /\ last'.err = "ok"
                    /\ storage_exists'
                    /\ x \in Range(new.blocked) <=> x \notin Range(old.blocked)
                    /\ Range(new.blocked) \ {x} = Range(old.blocked) \ {x}
                    /\ new.bookings = old.bookings
                    /\ new.settings = old.settings]_vars
    /\ [](\A d \in ClickDates, hr \in ClickHours :
             ToggleResult(ToggleResult(Persisted, slot_iso(d, hr)), slot_iso(d, hr))
                 = Persisted)

\* A toggle has unblocked a slot while another slot stays blocked and a booking
\* is persisted.
C10_Witness ==
    /\ last.op = "toggle"
    /\ ~is_blocked(Persisted, last.slot)
    /\ Persisted.blocked # <<>>
    /\ Persisted.bookings # <<>>

\* The toggles of slot x among the first n reports of the recorded run.
TogglesBefore(x, n) ==
    Cardinality({i \in 1..n : trail[i].op = "toggle" /\ trail[i].slot = x})

\* A Confirm among the first n reports of the recorded run has booked slot x.
BookedBefore(x, n) ==
    \E i \in 1..n : trail[i] = Report("create", "ok", x, trail[i].text)

\* C11: in a run of whole handlers from the empty document, a Confirm with a
\* valid name on a slot is refused with SlotBlocked after the slot was toggled
\* an odd number of times (blocked), and after an even number of toggles
\* (unblocked again) it succeeds if the slot is free, and the slot's booking is
\* then persisted.
C11_BlockThenUnblockScenario ==
    \A i \in 1..Len(trail) :
        (trail[i].op = "create" /\ trail[i].text # <<>>)
        => LET x == trail[i].slot
           IN  IF TogglesBefore(x, i - 1) % 2 = 1
               THEN trail[i].err = "SlotBlocked"
               ELSE IF BookedBefore(x, i - 1)
               THEN trail[i].err = "SlotTaken"
               ELSE trail[i].err = "ok" /\ x \in StartISOs(Persisted)

\* The scenario itself: block, a refused Confirm, unblock, a Confirm that booked
\* the slot.
C11_Witness ==
    /\ Len(trail) = 4
    /\ LET x == trail[1].slot
       IN  /\ trail[1] = Report("toggle", "ok", x, NoText)
           /\ trail[2] = Report("create", "SlotBlocked", x, trail[2].text)
           /\ trail[2].text # <<>>
           /\ trail[3] = Report("toggle", "ok", x, NoText)
           /\ trail[4] = Report("create", "ok", x, trail[4].text)
           /\ x \in StartISOs(Persisted)
           /\ ~is_blocked(Persisted, x)

\* C12: every persisted booking ends 60 minutes after it starts, after any
\* sequence of Confirms and moves.
C12_EndIsStartPlusSixty ==
    \A i \in 1..Len(Persisted.bookings) :
        Persisted.bookings[i].endISO = Persisted.bookings[i].startISO + 60

\* A booking created at an earlier clock value has been moved, and it ends 60
\* minutes after its new start.
C12_Witness ==
    /\ last.op = "move"
    /\ last.err = "ok"
    /\ \E i \in 1..Len(Persisted.bookings) :
          /\ Persisted.bookings[i].startISO = last.slot
          /\ Persisted.bookings[i].endISO = last.slot + 60
          /\ Persisted.bookings[i].createdAtISO < now

\* The hour of the day at which a slot starts.
HourOf(iso) == (iso \div 60) % 24

\* C13: 'Save settings' writes the three settings (the PIN cut to at most 8
\* characters) and leaves the bookings and the blocked list exactly as re-read,
\* those outside the new hours included; every booking is still found by its
\* code by the manage form, by a move and by a cancel.
C13_SettingsFrame ==
    [][\A s \in Sessions, v \in SettingsInputs :
          save_settings(s, v[1], v[2], v[3])
          => LET old == load_storage
                 new == storage_json'
             IN  /\ storage_exists'
                 /\ new.bookings = old.bookings
                 /\ new.blocked = old.blocked
                 /\ new.settings.dayStartHour = v[1]
                 /\ new.settings.dayEndHour = v[2]
                 /\ new.settings.trainerPin = SubSeq(v[3], 1, Len(new.settings.trainerPin))
                 /\ Len(new.settings.trainerPin) <= 8
                 /\ Len(new.settings.trainerPin) = 8 \/ Len(new.settings.trainerPin) = Len(v[3])
                 /\ \A i \in 1..Len(old.bookings) :
                       LET code == upper(old.bookings[i].code)
                       IN  /\ Managed(new, code)
                           /\ CancelResult(new, code).err = "ok"
                           /\ \A d \in ClickDates, hr \in MoveHours :
                                 MoveResult(new, code, slot_iso(d, hr)).err
                                     # "BookingNotFound"]_vars

\* Settings with hours 7..6 and a PIN cut to 8 characters were saved while a
\* booking and a blocked slot, both outside those hours, stay persisted.
C13_Witness ==
    /\ last.op = "settings"
    /\ Len(Persisted.settings.trainerPin) = 8
    /\ \E i \in 1..Len(Persisted.bookings) :
          HourOf(Persisted.bookings[i].startISO) \notin hours(Persisted)
    /\ \E x \in Range(Persisted.blocked) : HourOf(x) \notin hours(Persisted)

\* C14: 'Save settings' with a start hour greater than the end hour is accepted
\* and persisted as entered; while such settings are persisted no hour is
\* enumerated, and every date shows total 0, occupied 0 and free 0.
C14_StartAfterEndEmptyDay ==
    /\ [][\A s \in Sessions, v \in SettingsInputs :
             (save_settings(s, v[1], v[2], v[3]) /\ v[1] > v[2])
             => /\ last'.err = "ok"
                /\ storage_exists'
                /\ storage_json'.settings.dayStartHour = v[1]
                /\ storage_json'.settings.dayEndHour = v[2]]_vars
    /\ [](Persisted.settings.dayStartHour > Persisted.settings.dayEndHour
            => /\ hours(Persisted) = {}
               /\ \A d \in GridDates :
                     day_availability_stats(Persisted, d)
                         = [free |-> 0, occupied |-> 0, total |-> 0])

\* Hours 7..6 are persisted together with a booking and a blocked slot of a
\* rendered date.
C14_Witness ==
    /\ Persisted.settings.dayStartHour > Persisted.settings.dayEndHour
    /\ Persisted.bookings # <<>>
    /\ Persisted.blocked # <<>>
    /\ last.op = "settings"
    /\ day_availability_stats(Persisted, 1).total = 0

\* C15: once storage.json has been written, load_storage() returns the document
\* written last, never a document cached earlier.
C15_LoadReturnsLastWritten == storage_exists => load_storage = Persisted

\* C16: storage.json is absent or holds one whole document that a save_storage
\* call was given to write, whatever the interleaving of the save_storage calls
\* and wherever the server crashes.
C16_StorageAbsentOrWholeDocument ==
    storage_exists => (IsDocument(storage_json) /\ storage_json \in asked)

\* C17: no two persisted bookings have the same id, and a move leaves the id of
\* every booking as it was.
C17_IdsUniqueAndFixed ==
    /\ [](\A i, j \in 1..Len(Persisted.bookings) :
             i # j => Persisted.bookings[i].id # Persisted.bookings[j].id)
    /\ [][\A s \in Sessions, typed \in CodeInputs, d \in ClickDates, hr \in ClickHours :
             (move_booking(s, typed, d, hr) /\ last'.err = "ok")
             => /\ Len(storage_json'.bookings) = Len(load_storage.bookings)
                /\ \A i \in 1..Len(load_storage.bookings) :
                      storage_json'.bookings[i].id = load_storage.bookings[i].id]_vars

\* C18: a Confirm reports the first that applies of SlotBlocked, SlotTaken and
\* InvalidName; a move reports the first that applies of BookingNotFound,
\* SlotTaken and SlotBlocked; a refused Confirm or move writes nothing.
C18_ErrorPrecedence ==
    [][/\ \A d \in ClickDates, hr \in ClickHours, name \in NameInputs :
             (/\ last'.op = "create"
              /\ last'.slot = slot_iso(d, hr)
              /\ last'.text = strip(name)
              /\ \E s \in Sessions, remark \in RemarkInputs, u \in uid(3) :
                    confirm_booking_dialog(s, d, hr, name, remark, u, u))
             => LET old == load_storage
                    x   == slot_iso(d, hr)
                IN  /\ last'.err = IF x \in Range(old.blocked) THEN "SlotBlocked"
                                   ELSE IF x \in StartISOs(old) THEN "SlotTaken"
                                   ELSE IF strip(name) = <<>> THEN "InvalidName"
                                   ELSE "ok"
                    /\ last'.err # "ok" => NothingWritten
       /\ \A typed \in CodeInputs, d \in ClickDates, hr \in MoveHours :
             (/\ last'.op = "move"
              /\ last'.slot = slot_iso(d, hr)
              /\ \E s \in Sessions : move_booking(s, typed, d, hr))
             => LET old == load_storage
                    x   == slot_iso(d, hr)
                IN  /\ last'.err = IF ~HasCode(old, upper(strip(typed))) THEN "BookingNotFound"
                                   ELSE IF x \in StartISOs(old) THEN "SlotTaken"
                                   ELSE IF x \in Range(old.blocked) THEN "SlotBlocked"
                                   ELSE "ok"
                    /\ last'.err # "ok" => NothingWritten]_vars

\* A move with a code no booking carries any more was refused with
\* BookingNotFound although its target is both booked and blocked.
C18_Witness ==
    /\ last.op = "move"
    /\ last.err = "BookingNotFound"
    /\ is_booked(Persisted, last.slot)
    /\ is_blocked(Persisted, last.slot)

\* C19: for the persisted bookings and blocks under any start and end hour, and
\* any date: total is the number of hours from start to end inclusive, occupied
\* is the number of those hours whose slot is booked or blocked (a slot that is
\* both counts once), free is total minus occupied and lies between 0 and
\* total; slots at other hours count nowhere.
C19_AvailabilityCounts ==
    \A a \in StatHours, b \in StatHours, d \in GridDates :
        LET doc   == [Persisted EXCEPT !.settings.dayStartHour = a,
                                       !.settings.dayEndHour = b]
            stats == day_availability_stats(doc, d)
            occ   == {hr \in 0..23 :
                        /\ a <= hr
                        /\ hr <= b
                        /\ slot_iso(d, hr) \in StartISOs(doc) \cup Range(doc.blocked)}
        IN  /\ stats.total = (IF a <= b THEN b - a + 1 ELSE 0)
            /\ stats.occupied = Cardinality(occ)
            /\ stats.free = stats.total - stats.occupied
            /\ 0 <= stats.free
            /\ stats.free <= stats.total
            /\ stats.free + stats.occupied = stats.total

\* A slot of date 1 is both booked and blocked and another is booked only, and
\* the day shows 2 occupied of 16; with hours 7..8 the slot at 06:00 counts
\* nowhere.
C19_Witness ==
    /\ Overlap(Persisted) # {}
    /\ Cardinality(StartISOs(Persisted)) = 2
    /\ hours(Persisted) = DEFAULT_DAY_START..DEFAULT_DAY_END
    /\ day_availability_stats(Persisted, 1) = [free |-> 14, occupied |-> 2, total |-> 16]
    /\ day_availability_stats([Persisted EXCEPT !.settings.dayStartHour = 7,
                                                !.settings.dayEndHour = 8], 1).occupied = 1

\* C20: the persisted blocked set and settings change only in a block toggle or
\* a settings save of a session whose trainer_mode is true; trainer_mode turns
\* true only in an Unlock whose PIN equals the persisted trainerPin; a header
\* button or the trainer dialog's Close leaves trainer_mode false.
C20_TrainerOnlyAfterStoredPin ==
    [][ /\ (\/ Persisted'.blocked # Persisted.blocked
            \/ Persisted'.settings # Persisted.settings)
           => \E s \in Sessions :
                 /\ trainer_mode[s]
                 /\ \/ \E d \in ClickDates, hr \in ClickHours : toggle_block(s, d, hr)
                    \/ \E v \in SettingsInputs : save_settings(s, v[1], v[2], v[3])
        /\ \A s \in Sessions :
              (~trainer_mode[s] /\ trainer_mode'[s])
                 => /\ unlock(s, Persisted.settings.trainerPin)
                    /\ Persisted.settings.trainerPin \in PinInputs
        /\ \A s \in Sessions :
              (header_button(s) \/ trainer_close(s)) => ~trainer_mode'[s]
      ]_vars

\* The effect of the handler session s ran last is in the persisted state.
EffectPersisted(s) ==
    CASE job[s].pc = "done" /\ job[s].err = "ok" ->
             job[s].start_iso \in StartISOs(Persisted)
      [] job[s].pc = "toggled" ->
             (job[s].start_iso \in Range(Persisted.blocked)) = job[s].now_blocked
      [] OTHER -> TRUE

\* The handler session s ran last has finished with success.
Succeeded(s) ==
    \/ job[s].pc = "done" /\ job[s].err = "ok"
    \/ job[s].pc = "toggled"

\* C21: when the handlers two sessions ran last (a Confirm or a block toggle)
\* both reported success on different slots, then under every interleaving of
\* their re-reads and writes the persisted state contains the effect of both.
C21_NoLostUpdate ==
    \A s, u \in Sessions :
        (/\ s # u
         /\ Succeeded(s)
         /\ Succeeded(u)
         /\ job[s].start_iso # job[u].start_iso)
        => (EffectPersisted(s) /\ EffectPersisted(u))

\* Session s has clicked widget w of the manage section drawn for the typed code.
Clicked(s, w, typed) ==
    /\ job[s].pc = "hidden"
    /\ job[s].widget = w
    /\ job[s].typed = typed

\* C22: after a client has submitted the code of an existing booking and then
\* clicked 'Cancel this booking', the booking is eventually gone from the
\* persisted state; after a click on an enabled hour button under 'Move to:',
\* the booking eventually starts at another slot.
C22_ManageClickTakesEffect ==
    \A s \in Sessions, typed \in CodeInputs :
        LET code == upper(strip(typed))
        IN  /\ (Clicked(s, "cancel", typed) /\ Managed(Persisted, code))
                   ~> ~Managed(Persisted, code)
            /\ \A iso \in {slot_iso(d, hr) : d \in ClickDates, hr \in ClickHours} :
                   (/\ Clicked(s, "move", typed)
                    /\ \E i \in 1..Len(Persisted.bookings) :
                          /\ upper(Persisted.bookings[i].code) = code
                          /\ Persisted.bookings[i].startISO = iso)
                   ~> ~(\E i \in 1..Len(Persisted.bookings) :
                          /\ upper(Persisted.bookings[i].code) = code
                          /\ Persisted.bookings[i].startISO = iso)

\* The kinds of dialog the flags ss ask for.
Wanted(ss) ==
    (IF ss.open_confirm /\ ss.pending_booking_date # NoDate THEN {"confirm"} ELSE {})
    \cup (IF ss.slots_modal_open THEN {"slots"} ELSE {})
    \cup (IF ss.show_month_picker THEN {"month"} ELSE {})
    \cup (IF ss.show_trainer_modal THEN {"trainer"} ELSE {})

\* confirm-booking > slot-selection > month-picker > trainer.
Rank(k) ==
    CASE k = "confirm" -> 1
      [] k = "slots"   -> 2
      [] k = "month"   -> 3
      [] k = "trainer" -> 4

\* C23: a script run that puts a dialog on screen launches exactly one, the
\* one of highest priority among those the session flags ask for; and the run
\* caused by a click on a day cell launches the slot-selection dialog for the
\* clicked date.
C23_OneDialogAndDayClickOpensSlots ==
    /\ [][\A s \in DialogSessions :
             (dialog'[s] # dialog[s] /\ dialog'[s] # NoDialog)
                => /\ Cardinality(dialog'[s]) = 1
                   /\ \A x \in dialog'[s] :
                         /\ x.kind \in Wanted(session_state'[s])
                         /\ \A k \in Wanted(session_state'[s]) : Rank(x.kind) <= Rank(k)
         ]_vars
    /\ [][\A s \in DialogSessions, d \in GridDates :
             day_click(s, d) => dialog'[s] = {[kind |-> "slots", date |-> d]}
         ]_vars
====
